---- MODULE Spec2Model ----
(***************************************************************************)
(* Model of the chess engine of "AI Project/chess_ai.py": the static       *)
(* evaluator (evaluate_board and its helpers), the depth-limited           *)
(* alpha-beta search and the root move selection find_best_move.           *)
(*                                                                         *)
(* Scores are kept in tenths of a point, so that the mobility coefficient  *)
(* 0.1 of evaluate_mobility is the integer 1 and every other term of the   *)
(* source is multiplied by Scale.  math.inf is a value above every         *)
(* heuristic sum.  chess.WHITE is TRUE and chess.BLACK is FALSE, as in     *)
(* the rules engine.  Squares are 0..63 with a1 = 0 and h8 = 63.           *)
(***************************************************************************)
EXTENDS Integers, Sequences, FiniteSets, TLC

WHITE == TRUE
BLACK == FALSE

\* tenths per point: 0.1 * mobility becomes mobility
Scale == 10

\* math.inf and -math.inf
PosInf == 1000000000
NegInf == -PosInf

\* best_move = None
None == 0

PieceTypes == <<"PAWN", "KNIGHT", "BISHOP", "ROOK", "QUEEN", "KING">>

\* self.piece_values
piece_values(pt) ==
    CASE pt = "PAWN"   -> 100
      [] pt = "KNIGHT" -> 320
      [] pt = "BISHOP" -> 330
      [] pt = "ROOK"   -> 500
      [] pt = "QUEEN"  -> 900
      [] pt = "KING"   -> 20000

PawnTable ==
    << 0, 0, 0, 0, 0, 0, 0, 0,
       5, 10, 10, -20, -20, 10, 10, 5,
       5, -5, -10, 0, 0, -10, -5, 5,
       0, 0, 0, 20, 20, 0, 0, 0,
       5, 5, 10, 25, 25, 10, 5, 5,
       10, 10, 20, 30, 30, 20, 10, 10,
       50, 50, 50, 50, 50, 50, 50, 50,
       0, 0, 0, 0, 0, 0, 0, 0 >>

KnightTable ==
    << -50, -40, -30, -30, -30, -30, -40, -50,
       -40, -20, 0, 0, 0, 0, -20, -40,
       -30, 0, 10, 15, 15, 10, 0, -30,
       -30, 5, 15, 20, 20, 15, 5, -30,
       -30, 0, 15, 20, 20, 15, 0, -30,
       -30, 5, 10, 15, 15, 10, 5, -30,
       -40, -20, 0, 5, 5, 0, -20, -40,
       -50, -40, -30, -30, -30, -30, -40, -50 >>

BishopTable ==
    << -20, -10, -10, -10, -10, -10, -10, -20,
       -10, 0, 0, 0, 0, 0, 0, -10,
       -10, 0, 5, 10, 10, 5, 0, -10,
       -10, 5, 5, 10, 10, 5, 5, -10,
       -10, 0, 10, 10, 10, 10, 0, -10,
       -10, 10, 10, 10, 10, 10, 10, -10,
       -10, 5, 0, 0, 0, 0, 5, -10,
       -20, -10, -10, -10, -10, -10, -10, -20 >>

RookTable ==
    << 0, 0, 0, 0, 0, 0, 0, 0,
       5, 10, 10, 10, 10, 10, 10, 5,
       -5, 0, 0, 0, 0, 0, 0, -5,
       -5, 0, 0, 0, 0, 0, 0, -5,
       -5, 0, 0, 0, 0, 0, 0, -5,
       -5, 0, 0, 0, 0, 0, 0, -5,
       -5, 0, 0, 0, 0, 0, 0, -5,
       0, 0, 0, 5, 5, 0, 0, 0 >>

QueenTable ==
    << -20, -10, -10, -5, -5, -10, -10, -20,
       -10, 0, 0, 0, 0, 0, 0, -10,
       -10, 0, 5, 5, 5, 5, 0, -10,
       -5, 0, 5, 5, 5, 5, 0, -5,
       0, 0, 5, 5, 5, 5, 0, -5,
       -10, 5, 5, 5, 5, 5, 0, -10,
       -10, 0, 5, 0, 0, 0, 0, -10,
       -20, -10, -10, -5, -5, -10, -10, -20 >>

KingTable ==
    << 20, 30, 10, 0, 0, 10, 30, 20,
       20, 20, 0, 0, 0, 0, 20, 20,
       -10, -20, -20, -20, -20, -20, -20, -10,
       -20, -30, -30, -40, -40, -30, -30, -20,
       -30, -40, -40, -50, -50, -40, -40, -30,
       -30, -40, -40, -50, -50, -40, -40, -30,
       -30, -40, -40, -50, -50, -40, -40, -30,
       -30, -40, -40, -50, -50, -40, -40, -30 >>

\* self.piece_square_tables[piece_type][square], square counted from 0
piece_square_tables(pt, square) ==
    CASE pt = "PAWN"   -> PawnTable[square + 1]
      [] pt = "KNIGHT" -> KnightTable[square + 1]
      [] pt = "BISHOP" -> BishopTable[square + 1]
      [] pt = "ROOK"   -> RookTable[square + 1]
      [] pt = "QUEEN"  -> QueenTable[square + 1]
      [] pt = "KING"   -> KingTable[square + 1]

\* chess.square_mirror: square ^ 0x38, the same file on the mirrored rank
square_mirror(square) == (7 - (square \div 8)) * 8 + (square % 8)

\* chess.square_file
square_file(square) == square % 8

(***************************************************************************)
(* The rules engine's view of a position, as evaluate_board queries it:    *)
(*   turn        board.turn                                                *)
(*   pieces      the occupied squares, a set of [pt, color, sq]            *)
(*   checkmate   board.is_checkmate()                                      *)
(*   stalemate   board.is_stalemate()                                      *)
(*   seventyfive board.is_seventyfive_moves()                              *)
(*   fivefold    board.is_fivefold_repetition()                            *)
(*   nlegal      board.legal_moves.count()                                 *)
(***************************************************************************)

\* board.pieces(piece_type, color): the squares holding such a piece
pieces(b, pt, color) == {p.sq : p \in {q \in b.pieces : q.pt = pt /\ q.color = color}}

\* Board.has_insufficient_material(color) of the rules engine
has_insufficient_material(b, color) ==
    LET own     == {p \in b.pieces : p.color = color}
        other   == {p \in b.pieces : p.color # color}
        bishops == {p \in b.pieces : p.pt = "BISHOP"}
        dark(p) == ((p.sq \div 8) + (p.sq % 8)) % 2 = 0
    IN  IF \E p \in own : p.pt \in {"PAWN", "ROOK", "QUEEN"} THEN FALSE
        ELSE IF \E p \in own : p.pt = "KNIGHT"
             THEN /\ Cardinality(own) <= 2
                  /\ ~ \E p \in other : p.pt \notin {"KING", "QUEEN"}
        ELSE IF \E p \in own : p.pt = "BISHOP"
             THEN /\ \/ \A p \in bishops : dark(p)
                     \/ \A p \in bishops : ~dark(p)
                  /\ ~ \E p \in b.pieces : p.pt \in {"PAWN", "KNIGHT"}
        ELSE TRUE

\* board.is_insufficient_material()
is_insufficient_material(b) ==
    has_insufficient_material(b, WHITE) /\ has_insufficient_material(b, BLACK)

\* board.is_game_over(): any of the rules engine's automatic game ends
is_game_over(b) ==
    \/ b.checkmate
    \/ b.stalemate
    \/ is_insufficient_material(b)
    \/ b.seventyfive
    \/ b.fivefold

RECURSIVE SumTable(_, _, _)
\* sum of pst[square] (White) or pst[square_mirror(square)] (Black) over a set of squares
SumTable(pt, squares, mirrored) ==
    IF squares = {} THEN 0
    ELSE LET s == CHOOSE x \in squares : TRUE
         IN  (IF mirrored THEN piece_square_tables(pt, square_mirror(s))
                          ELSE piece_square_tables(pt, s))
             + SumTable(pt, squares \ {s}, mirrored)

RECURSIVE MaterialAndTables(_, _)
\* the loop of evaluate_board over self.piece_values, from the i-th piece type on
MaterialAndTables(b, i) ==
    IF i > Len(PieceTypes) THEN 0
    ELSE LET pt           == PieceTypes[i]
             white_pieces == pieces(b, pt, WHITE)
             black_pieces == pieces(b, pt, BLACK)
         IN  Cardinality(white_pieces) * piece_values(pt)
             - Cardinality(black_pieces) * piece_values(pt)
             + SumTable(pt, white_pieces, FALSE)
             - SumTable(pt, black_pieces, TRUE)
             + MaterialAndTables(b, i + 1)

RECURSIVE PawnFilesFlat(_, _)
RECURSIVE PawnFiles(_, _)
\* the loop of evaluate_pawn_structure over range(8), from file f on
\* the penalty taken once per file, however many pawns stand on it
PawnFilesFlat(b, f) ==
    IF f > 7 THEN 0
    ELSE LET white_pawns == Cardinality({s \in pieces(b, "PAWN", WHITE) : square_file(s) = f})
             black_pawns == Cardinality({s \in pieces(b, "PAWN", BLACK) : square_file(s) = f})
         IN  (IF white_pawns > 1 THEN - 10 ELSE 0)
             + (IF black_pawns > 1 THEN 10 ELSE 0)
             + PawnFilesFlat(b, f + 1)

PawnFiles(b, f) ==
    IF f > 7 THEN 0
    ELSE LET white_pawns == Cardinality({s \in pieces(b, "PAWN", WHITE) : square_file(s) = f})
             black_pawns == Cardinality({s \in pieces(b, "PAWN", BLACK) : square_file(s) = f})
         IN  (IF white_pawns > 1 THEN - 10 * (white_pawns - 1) ELSE 0)
             + (IF black_pawns > 1 THEN 10 * (black_pawns - 1) ELSE 0)
             + PawnFiles(b, f + 1)

evaluate_pawn_structure(b) ==
    LET score == PawnFiles(b, 0)
    IN  IF b.turn = WHITE THEN score ELSE - score

\* in tenths: 0.1 * mobility is mobility
evaluate_mobility(b) ==
    LET mobility == b.nlegal
    IN  IF b.turn = WHITE THEN mobility ELSE - mobility

\* evaluate_board with the 75-move test left out of the draw condition
evaluate_board_no75(b) ==
    IF b.checkmate
    THEN (IF b.turn THEN NegInf ELSE PosInf)
    ELSE IF b.stalemate \/ is_insufficient_material(b)
    THEN 0
    ELSE LET score == Scale * MaterialAndTables(b, 1)
                      + Scale * evaluate_pawn_structure(b)
                      + evaluate_mobility(b)
         IN  IF b.turn = WHITE THEN score ELSE - score

\* evaluate_board returning the White-minus-Black sum whoever is to move
evaluate_board_noflip(b) ==
    IF b.checkmate
    THEN (IF b.turn THEN NegInf ELSE PosInf)
    ELSE IF b.stalemate \/ is_insufficient_material(b) \/ b.seventyfive
    THEN 0
    ELSE Scale * MaterialAndTables(b, 1)
         + Scale * evaluate_pawn_structure(b)
         + evaluate_mobility(b)

evaluate_board(b) ==
    IF b.checkmate
    THEN (IF b.turn THEN NegInf ELSE PosInf)
    ELSE IF b.stalemate \/ is_insufficient_material(b) \/ b.seventyfive
    THEN 0
    ELSE LET score == Scale * MaterialAndTables(b, 1)
                      + Scale * evaluate_pawn_structure(b)
                      + evaluate_mobility(b)
         IN  IF b.turn = WHITE THEN score ELSE - score


(***************************************************************************)
(* The positions the search runs on.  The rules engine owns the game: the  *)
(* model gives it a finite game tree whose nodes are positions, listed in  *)
(* preorder with their ply below the root position.  A move is named by    *)
(* the node it leads to and board.legal_moves iterates a node's children   *)
(* in ascending order.  board.move_stack is the path of moves pushed.      *)
(***************************************************************************)

\* bounds of the model
MaxNodes == 6
MaxBranch == 2
MaxDepth == 3

Kings == {[pt |-> "KING", color |-> WHITE, sq |-> 4],
          [pt |-> "KING", color |-> BLACK, sq |-> 60]}

\* White is a rook up
BoardUp == Kings \cup {[pt |-> "ROOK", color |-> WHITE, sq |-> 0]}

\* Black is a queen up
BoardDown == Kings \cup {[pt |-> "QUEEN", color |-> BLACK, sq |-> 59]}

\* either side has a major piece, so either side can be mated
BoardBoth == BoardUp \cup BoardDown

View(ps, mate, stale, five, n) ==
    [pieces |-> ps, checkmate |-> mate, stalemate |-> stale,
     seventyfive |-> FALSE, fivefold |-> five, nlegal |-> n]

\* the positions a childless node of the tree may be
LeafView(k) ==
    CASE k = "mate"  -> View(BoardBoth, TRUE, FALSE, FALSE, 0)
      [] k = "stale" -> View(BoardBoth, FALSE, TRUE, FALSE, 0)
      [] k = "rep"   -> View(BoardUp, FALSE, FALSE, TRUE, 2)
      [] k = "up"    -> View(BoardUp, FALSE, FALSE, FALSE, 2)
      [] k = "down"  -> View(BoardDown, FALSE, FALSE, FALSE, 3)

\* game ends without a legal move; the only childless positions a caller can hand over
NoMoveKinds == {"mate", "stale"}

\* positions where board.is_game_over() holds
OverKinds == {"mate", "stale", "rep"}

\* positions still in play, whose moves lie beyond the search horizon
PlayKinds == {"up", "down"}

Last(s) == s[Len(s)]

RECURSIVE ParentIn(_, _, _)
\* the parent of node j: the nearest earlier node one ply higher
ParentIn(dp, j, k) ==
    IF k = 0 THEN 0
    ELSE IF dp[k] = dp[j] - 1 THEN k
    ELSE ParentIn(dp, j, k - 1)

Parent(dp, j) == ParentIn(dp, j, j - 1)

ChildSet(dp, i) == {j \in (i + 1)..Len(dp) : Parent(dp, j) = i}

RECURSIVE SortedSeq(_)
\* a set of node numbers as an ascending sequence
SortedSeq(S) ==
    IF S = {} THEN << >>
    ELSE LET m == CHOOSE x \in S : \A y \in S : x <= y
         IN  <<m>> \o SortedSeq(S \ {m})

RECURSIVE DepSeqs(_, _)
\* the preorder ply sequences of the trees with n nodes, height at most h
\* and at most MaxBranch moves in a position
DepSeqs(n, h) ==
    IF n = 1 THEN {<<0>>}
    ELSE LET ext == {Append(dp, x) : dp \in DepSeqs(n - 1, h), x \in 1..h}
         IN  {dp \in ext : /\ dp[n] <= dp[n - 1] + 1
                           /\ Cardinality(ChildSet(dp, Parent(dp, n))) <= MaxBranch}

LeafSet(dp) == {i \in 1..Len(dp) : ChildSet(dp, i) = {}}

\* an inner node: a position in play whose legal moves are its children
InnerView(dp, i) == View(BoardUp, FALSE, FALSE, FALSE, Cardinality(ChildSet(dp, i)))

(***************************************************************************)
(* The kinds a childless node may have when the engine searches d plies:   *)
(* the root has no move only when the game ended without one; a node       *)
(* above the horizon is childless only when the game is over; a node at    *)
(* the horizon (ply d, d >= 1) may be any position.  For d <= 0 the        *)
(* search has no horizon and every childless node is a finished game.      *)
(***************************************************************************)
LeafKinds(dp, i, d) ==
    IF i = 1 THEN NoMoveKinds
    ELSE IF d >= 1 /\ dp[i] = d THEN OverKinds \cup PlayKinds
    ELSE OverKinds

VARIABLES
    depth,        \* self.depth
    rootTurn,     \* board.turn of the position handed to find_best_move
    dep,          \* the game tree: ply of each node, in preorder
    view,         \* the game tree: the rules engine's view of each node
    move_stack,   \* board.move_stack: the moves pushed and not popped
    pc,           \* where find_best_move stands
    frames,       \* the active calls of alpha_beta_search, innermost last
    ret,          \* the value the last finished alpha_beta_search returned
    rootIdx,      \* root moves iterated so far
    best_move,
    best_value,
    move_values,  \* history: move_value of each root move, in iteration order
    flags,        \* history: the maximizing flag of each root call
    npush,        \* history: board.push calls
    npop,         \* history: board.pop calls
    cuts,         \* history: loops left by break with moves still untried
    result        \* the move find_best_move returned

searchVars == <<depth, rootTurn, dep, view, move_stack, pc, frames, ret, rootIdx,
                best_move, best_value, move_values, flags, npush, npop, cuts, result>>

\* the node the board stands on
Cur == IF move_stack = << >> THEN 1 ELSE Last(move_stack)

\* board.turn at a node: the root mover on even plies
TurnAt(i) == IF dep[i] % 2 = 0 THEN rootTurn ELSE ~rootTurn

\* the board at node i as the engine queries it
BoardAt(i) ==
    [turn |-> TurnAt(i), pieces |-> view[i].pieces, checkmate |-> view[i].checkmate,
     stalemate |-> view[i].stalemate, seventyfive |-> view[i].seventyfive,
     fivefold |-> view[i].fivefold, nlegal |-> view[i].nlegal]

\* list(board.legal_moves) at node i, in the rules engine's iteration order
legal_moves(i) == SortedSeq(ChildSet(dep, i))

\* board.push(move)
Push(ms, move) == Append(ms, move)

\* a pop that leaves the move on the board
PopSkipped(ms) == ms

\* board.pop()
Pop(ms) == SubSeq(ms, 1, Len(ms) - 1)

\* a call of alpha_beta_search returns: its frame leaves the call stack
Unwind(fs) == SubSeq(fs, 1, Len(fs) - 1)

SearchInit ==
    \E n \in 1..MaxNodes, d \in 0..MaxDepth, t \in BOOLEAN :
      \E dp \in DepSeqs(n, IF d >= 1 THEN d ELSE MaxNodes) :
        \E lk \in [LeafSet(dp) -> OverKinds \cup PlayKinds] :
          /\ \A i \in LeafSet(dp) : lk[i] \in LeafKinds(dp, i, d)
          /\ depth = d
          /\ rootTurn = t
          /\ dep = dp
          /\ view = [i \in 1..n |-> IF i \in LeafSet(dp) THEN LeafView(lk[i])
                                    ELSE InnerView(dp, i)]
          /\ move_stack = << >>
          /\ pc = "idle"
          /\ frames = << >>
          /\ ret = 0
          /\ rootIdx = 0
          /\ best_move = None
          /\ best_value = 0
          /\ move_values = << >>
          /\ flags = << >>
          /\ npush = 0
          /\ npop = 0
          /\ cuts = 0
          /\ result = None

(***************************************************************************)
(* The evaluator on its own: a position set up on the board, evaluated     *)
(* with either side to move.  What the rules engine reports of a position  *)
(* depends on the side to move, so the facts are kept per side.            *)
(***************************************************************************)

\* bounds of the model
MaxExtra == 3
MaxMobility == 2

\* the pieces a position may hold besides the two kings
ExtraPieces ==
    {[pt |-> "PAWN",   color |-> WHITE, sq |-> 12],
     [pt |-> "PAWN",   color |-> WHITE, sq |-> 28],
     [pt |-> "PAWN",   color |-> WHITE, sq |-> 36],
     [pt |-> "PAWN",   color |-> WHITE, sq |-> 27],
     [pt |-> "PAWN",   color |-> BLACK, sq |-> 51],
     [pt |-> "PAWN",   color |-> BLACK, sq |-> 35],
     [pt |-> "KNIGHT", color |-> WHITE, sq |-> 18],
     [pt |-> "KNIGHT", color |-> BLACK, sq |-> 45],
     [pt |-> "BISHOP", color |-> WHITE, sq |-> 2],
     [pt |-> "ROOK",   color |-> BLACK, sq |-> 56],
     [pt |-> "QUEEN",  color |-> WHITE, sq |-> 3]}

\* what the rules engine may report of a position with a given side to move
Facts(mate, stale, n) == [checkmate |-> mate, stalemate |-> stale, nlegal |-> n]

FactSet ==
    {Facts(TRUE, FALSE, 0), Facts(FALSE, TRUE, 0)}
    \cup {Facts(FALSE, FALSE, n) : n \in 1..MaxMobility}

VARIABLES
    evPieces,      \* the pieces on the board
    evTurn,        \* board.turn
    evFacts,       \* per side to move: checkmate, stalemate, number of legal moves
    evSeventyfive, \* board.is_seventyfive_moves()
    evScore        \* per side to move: whether evaluate_board ran, and its result

NoScore == [done |-> FALSE, value |-> 0]

evalVars == <<evPieces, evTurn, evFacts, evSeventyfive, evScore>>

\* the board as evaluate_board queries it, with side t to move
EvBoardOf(t) ==
    [turn |-> t, pieces |-> evPieces, checkmate |-> evFacts[t].checkmate,
     stalemate |-> evFacts[t].stalemate, seventyfive |-> evSeventyfive,
     fivefold |-> FALSE, nlegal |-> evFacts[t].nlegal]

EvBoard == EvBoardOf(evTurn)

(***************************************************************************)
(* Two positions that differ in three White pawns only: tripled on one     *)
(* file in the first, each moved along its rank to a file of its own in    *)
(* the second.  Both are in play with White to move.                       *)
(***************************************************************************)

\* bound of the model: the pawns stand on the ranks 2 .. MaxPawnRank + 1
MaxPawnRank == 3

VARIABLES
    pwFirst,   \* the position with the three pawns on one file
    pwSecond,  \* the position with the pawns spread over three files
    pwScore    \* per position: whether evaluate_board ran, and its result

pawnVars == <<pwFirst, pwSecond, pwScore>>

\* a White pawn on file f of the rank with index r (0 for the first rank)
WhitePawn(f, r) == [pt |-> "PAWN", color |-> WHITE, sq |-> 8 * r + f]

\* the pieces besides the kings and the three pawns, none a Black pawn
PawnCompany ==
    {{},
     {[pt |-> "KNIGHT", color |-> BLACK, sq |-> 57], [pt |-> "ROOK", color |-> WHITE, sq |-> 7]}}

\* the board of a position in play with White to move
InPlayWhite(ps, n) ==
    [turn |-> WHITE, pieces |-> ps, checkmate |-> FALSE, stalemate |-> FALSE,
     seventyfive |-> FALSE, fivefold |-> FALSE, nlegal |-> n]

\* the state of the pawn positions while another part runs
PawnIdle ==
    /\ pwFirst = InPlayWhite(Kings, 1)
    /\ pwSecond = InPlayWhite(Kings, 1)
    /\ pwScore = <<NoScore, NoScore>>

(***************************************************************************)
(* The game window of chess_gui.py: the board it plays on is move_stack    *)
(* over the game tree, from the starting position.                         *)
(***************************************************************************)
VARIABLES
    game_over,     \* self.game_over
    player_color,  \* self.player_color
    valid_moves,   \* self.valid_moves: the moves of the selected square
    aiCalled,      \* history: find_best_move was invoked
    aiOnOver,      \* history: find_best_move was invoked on a finished game
    crashed        \* find_best_move raised and the program ended

guiVars == <<game_over, player_color, valid_moves, aiCalled, aiOnOver, crashed>>

\* the state of the window's variables while another part runs
GuiIdle ==
    /\ game_over = FALSE
    /\ player_color = WHITE
    /\ valid_moves = {}
    /\ aiCalled = FALSE
    /\ aiOnOver = FALSE
    /\ crashed = FALSE

Max(a, b) == IF a >= b THEN a ELSE b

Min(a, b) == IF a <= b THEN a ELSE b

\* the cutoff test with its comparison turned round
CutoffReversed(alpha, beta) == alpha <= beta

\* the cutoff test of both loops of alpha_beta_search
Cutoff(alpha, beta) == beta <= alpha

\* the base case of alpha_beta_search
AtBase(d, b) == d = 0 \/ is_game_over(b)

\* the frame of a call alpha_beta_search(board, d, alpha, beta, maximizing);
\* best is max_eval or min_eval, idx counts the moves the loop has taken
Frame(d, alpha, beta, maximizing) ==
    [depth |-> d, alpha |-> alpha, beta |-> beta, maximizing |-> maximizing,
     best |-> IF maximizing THEN NegInf ELSE PosInf, idx |-> 0, broke |-> FALSE]

\* the loop body of alpha_beta_search after the recursive call returned eval
AfterEval(f, eval) ==
    IF f.maximizing
    THEN LET alpha == Max(f.alpha, eval)
         IN  [f EXCEPT !.best = Max(f.best, eval), !.alpha = alpha,
                       !.broke = Cutoff(alpha, f.beta)]
    ELSE LET beta == Min(f.beta, eval)
         IN  [f EXCEPT !.best = Min(f.best, eval), !.beta = beta,
                       !.broke = Cutoff(f.alpha, beta)]

\* best_value started at the wrong end of the scale
InitialBestSwapped(turn) == IF turn = WHITE THEN PosInf ELSE NegInf

\* best_value at the start of find_best_move
InitialBest(turn) == IF turn = WHITE THEN NegInf ELSE PosInf

\* the maximizing argument of the root call, from board.turn after the push
RootFlag(turn) == turn = BLACK

\* the update tests with >= and <= in place of > and <
ImprovesOrEquals(turn, move_value, bv) ==
    \/ turn = WHITE /\ move_value >= bv
    \/ turn = BLACK /\ move_value <= bv

\* the two update tests of find_best_move, board.turn read after the pop
Improves(turn, move_value, bv) ==
    \/ turn = WHITE /\ move_value > bv
    \/ turn = BLACK /\ move_value < bv

historyVars == <<move_values, flags, cuts>>
treeVars == <<depth, rootTurn, dep, view>>

\* find_best_move is entered: lines 148-149
FindBestMove ==
    /\ pc = "idle"
    /\ pc' = "root"
    /\ best_move' = None
    /\ best_value' = InitialBest(TurnAt(Cur))
    /\ rootIdx' = 0
    /\ UNCHANGED <<treeVars, evalVars, pawnVars, guiVars, move_stack, frames, ret, historyVars, npush, npop, result>>

\* the root loop takes its next move: push and call alpha_beta_search
RootPush ==
    /\ pc = "root"
    /\ rootIdx < Len(legal_moves(Cur))
    /\ LET move == legal_moves(Cur)[rootIdx + 1]
           flag == RootFlag(TurnAt(move))
       IN  /\ move_stack' = Push(move_stack, move)
           /\ frames' = <<Frame(depth - 1, NegInf, PosInf, flag)>>
           /\ flags' = Append(flags, flag)
    /\ rootIdx' = rootIdx + 1
    /\ npush' = npush + 1
    /\ pc' = "search"
    /\ UNCHANGED <<treeVars, evalVars, pawnVars, guiVars, ret, best_move, best_value, move_values, npop, cuts, result>>

\* the innermost call is at depth 0 or a finished game: return evaluate_board
SearchBase ==
    /\ pc = "search"
    /\ AtBase(Last(frames).depth, BoardAt(Cur))
    /\ ret' = evaluate_board(BoardAt(Cur))
    /\ frames' = Unwind(frames)
    /\ pc' = "returned"
    /\ UNCHANGED <<treeVars, evalVars, pawnVars, guiVars, move_stack, rootIdx, best_move, best_value, historyVars,
                   npush, npop, result>>

\* the loop of the innermost call takes its next move: push and recurse
SearchPush ==
    /\ pc = "search"
    /\ LET f == Last(frames)
       IN  /\ ~AtBase(f.depth, BoardAt(Cur))
           /\ ~f.broke
           /\ f.idx < Len(legal_moves(Cur))
           /\ move_stack' = Push(move_stack, legal_moves(Cur)[f.idx + 1])
           /\ frames' = Append([frames EXCEPT ![Len(frames)].idx = f.idx + 1],
                               Frame(f.depth - 1, f.alpha, f.beta, ~f.maximizing))
    /\ npush' = npush + 1
    /\ UNCHANGED <<treeVars, evalVars, pawnVars, guiVars, pc, ret, rootIdx, best_move, best_value, historyVars,
                   npop, result>>

\* the recursive call returned: pop the move, fold eval in, test the cutoff
SearchPop ==
    /\ pc = "returned"
    /\ frames # << >>
    /\ move_stack' = Pop(move_stack)
    /\ frames' = [frames EXCEPT ![Len(frames)] = AfterEval(Last(frames), ret)]
    /\ npop' = npop + 1
    /\ pc' = "search"
    /\ UNCHANGED <<treeVars, evalVars, pawnVars, guiVars, ret, rootIdx, best_move, best_value, historyVars,
                   npush, result>>

\* the loop of the innermost call ended, by exhaustion or break: return the extremum
SearchReturn ==
    /\ pc = "search"
    /\ LET f == Last(frames)
       IN  /\ ~AtBase(f.depth, BoardAt(Cur))
           /\ f.broke \/ f.idx = Len(legal_moves(Cur))
           /\ ret' = f.best
           /\ cuts' = IF f.idx < Len(legal_moves(Cur)) THEN cuts + 1 ELSE cuts
    /\ frames' = Unwind(frames)
    /\ pc' = "returned"
    /\ UNCHANGED <<treeVars, evalVars, pawnVars, guiVars, move_stack, rootIdx, best_move, best_value,
                   move_values, flags, npush, npop, result>>

\* the root call returned: pop the move and keep it when it improves best_value
RootPop ==
    /\ pc = "returned"
    /\ frames = << >>
    /\ move_stack' = Pop(move_stack)
    /\ npop' = npop + 1
    /\ move_values' = Append(move_values, ret)
    /\ LET move == Last(move_stack)
           turn == TurnAt(Cur')
       IN  IF Improves(turn, ret, best_value)
           THEN best_value' = ret /\ best_move' = move
           ELSE UNCHANGED <<best_value, best_move>>
    /\ pc' = "root"
    /\ UNCHANGED <<treeVars, evalVars, pawnVars, guiVars, frames, ret, rootIdx, flags, npush, cuts, result>>

\* the root loop is over and a move was kept: return it
ReturnBest ==
    /\ pc = "root"
    /\ rootIdx = Len(legal_moves(Cur))
    /\ best_move # None
    /\ result' = best_move
    /\ pc' = "done"
    /\ UNCHANGED <<treeVars, evalVars, pawnVars, guiVars, move_stack, frames, ret, rootIdx, best_move, best_value,
                   historyVars, npush, npop>>

\* a fallback that returns None instead of raising on an empty list
ReturnRandomOrNone ==
    /\ pc = "root"
    /\ rootIdx = Len(legal_moves(Cur))
    /\ best_move = None
    /\ \E m \in ChildSet(dep, Cur) \cup {None} :
          /\ best_move' = m
          /\ result' = m
    /\ pc' = "fallback"
    /\ UNCHANGED <<treeVars, evalVars, pawnVars, guiVars, move_stack, frames, ret, rootIdx, best_value,
                   historyVars, npush, npop>>

\* no move was kept: random.choice over the legal moves
ReturnRandom ==
    /\ pc = "root"
    /\ rootIdx = Len(legal_moves(Cur))
    /\ best_move = None
    /\ \E k \in 1..Len(legal_moves(Cur)) :
          /\ best_move' = legal_moves(Cur)[k]
          /\ result' = legal_moves(Cur)[k]
    /\ pc' = "fallback"
    /\ UNCHANGED <<treeVars, evalVars, pawnVars, guiVars, move_stack, frames, ret, rootIdx, best_value,
                   historyVars, npush, npop>>

\* no move was kept and there is none: random.choice raises IndexError
RaiseEmpty ==
    /\ pc = "root"
    /\ rootIdx = Len(legal_moves(Cur))
    /\ best_move = None
    /\ legal_moves(Cur) = << >>
    /\ pc' = "error"
    /\ UNCHANGED <<treeVars, evalVars, pawnVars, guiVars, move_stack, frames, ret, rootIdx, best_move, best_value,
                   historyVars, npush, npop, result>>

SearchNext ==
    \/ FindBestMove
    \/ RootPush
    \/ SearchBase
    \/ SearchPush
    \/ SearchPop
    \/ SearchReturn
    \/ RootPop
    \/ ReturnBest
    \/ ReturnRandom
    \/ RaiseEmpty

\* the state of the evaluator's variables while the search runs
EvalIdle ==
    /\ evPieces = Kings
    /\ evTurn = WHITE
    /\ evFacts = [t \in BOOLEAN |-> Facts(FALSE, FALSE, 1)]
    /\ evSeventyfive = FALSE
    /\ evScore = [t \in BOOLEAN |-> NoScore]

\* the state of the search's variables while the evaluator runs alone
SearchIdle ==
    /\ depth = 1
    /\ rootTurn = WHITE
    /\ dep = <<0>>
    /\ view = <<LeafView("stale")>>
    /\ move_stack = << >>
    /\ pc = "idle"
    /\ frames = << >>
    /\ ret = 0
    /\ rootIdx = 0
    /\ best_move = None
    /\ best_value = 0
    /\ move_values = << >>
    /\ flags = << >>
    /\ npush = 0
    /\ npop = 0
    /\ cuts = 0
    /\ result = None

\* a position is set up: the mating side has mating material, and the two
\* sides are not both in check, so not both mated
EvalInit ==
    /\ SearchIdle
    /\ PawnIdle
    /\ GuiIdle
    /\ \E extra \in SUBSET ExtraPieces, t \in BOOLEAN, fw \in FactSet, fb \in FactSet,
          sf \in BOOLEAN :
          /\ Cardinality(extra) <= MaxExtra
          /\ evPieces = Kings \cup extra
          /\ evTurn = t
          /\ evFacts = [c \in BOOLEAN |-> IF c = WHITE THEN fw ELSE fb]
          /\ evSeventyfive = sf
          /\ ~(fw.checkmate /\ fb.checkmate)
          /\ fw.checkmate => ~has_insufficient_material([pieces |-> Kings \cup extra], BLACK)
          /\ fb.checkmate => ~has_insufficient_material([pieces |-> Kings \cup extra], WHITE)
    /\ evScore = [c \in BOOLEAN |-> NoScore]

\* evaluate_board(board) is called and its result kept
Evaluate ==
    /\ ~evScore[evTurn].done
    /\ evScore' = [evScore EXCEPT ![evTurn] =
                      [done |-> TRUE, value |-> evaluate_board(EvBoard)]]
    /\ UNCHANGED <<searchVars, pawnVars, guiVars, evPieces, evTurn, evFacts, evSeventyfive>>

\* the other side is given the move on the same board
FlipTurn ==
    /\ evScore[evTurn].done
    /\ ~evScore[~evTurn].done
    /\ evTurn' = ~evTurn
    /\ UNCHANGED <<searchVars, pawnVars, guiVars, evPieces, evFacts, evSeventyfive, evScore>>

EvalNext ==
    \/ Evaluate
    \/ FlipTurn

vars == <<searchVars, evalVars, pawnVars, guiVars>>

\* the engine is constructed and handed a position; the evaluator's own
\* variables rest
Init == SearchInit /\ EvalIdle /\ PawnIdle /\ GuiIdle

Next == SearchNext

Spec == Init /\ [][Next]_vars

SpecEval == EvalInit /\ [][EvalNext]_vars

(***************************************************************************)
(* The unpruned reference: a full-width minimax over the same tree, with   *)
(* the same flags, iteration order and leaf evaluator, and the root        *)
(* selection run over its values.                                          *)
(***************************************************************************)
RECURSIVE Minimax(_, _, _)
RECURSIVE MinimaxOver(_, _, _, _)
Minimax(i, d, maximizing) ==
    IF AtBase(d, BoardAt(i)) THEN evaluate_board(BoardAt(i))
    ELSE MinimaxOver(legal_moves(i), 1, d, maximizing)

MinimaxOver(moves, k, d, maximizing) ==
    IF k > Len(moves) THEN (IF maximizing THEN NegInf ELSE PosInf)
    ELSE LET v    == Minimax(moves[k], d - 1, ~maximizing)
             rest == MinimaxOver(moves, k + 1, d, maximizing)
         IN  IF maximizing THEN Max(v, rest) ELSE Min(v, rest)

RootMoves == legal_moves(1)

\* the full-width value of the k-th root move
RefValue(k) == Minimax(RootMoves[k], depth - 1, RootFlag(TurnAt(RootMoves[k])))

RECURSIVE RefSelect(_, _, _)
\* the root loop over the full-width values, from the k-th root move on
RefSelect(k, bm, bv) ==
    IF k > Len(RootMoves) THEN bm
    ELSE IF Improves(rootTurn, RefValue(k), bv)
         THEN RefSelect(k + 1, RootMoves[k], RefValue(k))
         ELSE RefSelect(k + 1, bm, bv)

RefBestMove == RefSelect(1, None, InitialBest(rootTurn))

\* find_best_move has returned a move
Returned == pc \in {"done", "fallback"}

\* the root loop is over
LoopOver == pc \in {"root", "done", "fallback", "error"} /\ rootIdx = Len(RootMoves)

\* C1: for a position with a legal move and a depth >= 1, every root move's
\* pruned search value is its full-width minimax value, and the move the
\* root loop keeps (none, when it falls back to a random move) is the move
\* the loop keeps over the minimax values.
C1_PrunedEqualsMinimax ==
    (depth >= 1 /\ RootMoves # << >>) =>
        /\ \A k \in 1..Len(move_values) : move_values[k] = RefValue(k)
        /\ pc = "done" => result = RefBestMove
        /\ pc = "fallback" => RefBestMove = None

\* a search that pruned at least once has returned its move
C1_Witness == pc = "done" /\ depth >= 1 /\ cuts >= 1

\* C2: when find_best_move has returned, the board stands where it stood at
\* the call: every push was popped, and throughout the call the moves on
\* the board are exactly those of the active calls, one each, innermost
\* last, each a legal move of the position before it.
C2_PositionRestored ==
    /\ Len(move_stack) = npush - npop
    /\ Len(move_stack) = Len(frames) + (IF pc = "returned" THEN 1 ELSE 0)
    /\ \A k \in 1..Len(move_stack) :
          Parent(dep, move_stack[k]) = (IF k = 1 THEN 1 ELSE move_stack[k - 1])
    /\ Returned => (move_stack = << >> /\ npush = npop)

\* a call that pushed several moves and left a loop by a cutoff has returned
C2_Witness == Returned /\ npush >= 4 /\ cuts >= 1 /\ move_stack = << >>

\* the root moves that deliver checkmate at once
MateMoves == {m \in ChildSet(dep, 1) : view[m].checkmate}

\* C3: at every depth >= 1, from a position with exactly one move that
\* mates at once, find_best_move returns that move.
C3_MateInOneReturned ==
    (Returned /\ depth >= 1 /\ Cardinality(MateMoves) = 1) => result \in MateMoves

\* C4: the score of a checkmate position is the negative sentinel for the
\* side to move, the mated side, whether White or Black is to move.
C4_MatedSideScoresNegative ==
    \A t \in BOOLEAN :
        (evScore[t].done /\ evFacts[t].checkmate) => evScore[t].value = NegInf

\* C5: a checkmate scores minus infinity with White to move and plus
\* infinity with Black to move; a position that is not checkmate but is
\* stalemate, has insufficient material or meets the 75-move rule scores
\* exactly 0, whatever pieces stand on the board.
C5_TerminalScores ==
    \A t \in BOOLEAN :
        evScore[t].done =>
            /\ evFacts[t].checkmate =>
                  evScore[t].value = (IF t = WHITE THEN NegInf ELSE PosInf)
            /\ (/\ ~evFacts[t].checkmate
                /\ \/ evFacts[t].stalemate
                   \/ is_insufficient_material(EvBoardOf(t))
                   \/ evSeventyfive) =>
                  evScore[t].value = 0

\* a board with unbalanced material, scored as a 75-move draw with White to
\* move and as a checkmate with Black to move
C5_Witness ==
    /\ evScore[WHITE].done /\ evScore[BLACK].done
    /\ evSeventyfive
    /\ ~evFacts[WHITE].checkmate /\ ~evFacts[WHITE].stalemate
    /\ evFacts[BLACK].checkmate
    /\ MaterialAndTables(EvBoardOf(WHITE), 1) # 0
    /\ ~is_insufficient_material(EvBoardOf(WHITE))

\* the position of move m among the root moves
RootIndex(m) == CHOOSE k \in 1..Len(RootMoves) : RootMoves[k] = m

\* C6: a move returned without the random fallback is a legal root move;
\* its search value is the greatest of all root moves' values when White
\* is the root mover and the least when Black is, and no earlier root move
\* has the same value.
C6_FirstExtremalMove ==
    pc = "done" =>
        /\ result \in ChildSet(dep, 1)
        /\ Len(move_values) = Len(RootMoves)
        /\ LET v == move_values[RootIndex(result)]
           IN  /\ \A j \in 1..Len(RootMoves) :
                     IF rootTurn = WHITE THEN move_values[j] <= v
                                         ELSE move_values[j] >= v
               /\ \A j \in 1..(RootIndex(result) - 1) : move_values[j] # v

\* the first of two root moves of equal, extremal value was returned
C6_Witness ==
    /\ pc = "done"
    /\ Len(RootMoves) = 2
    /\ move_values[1] = move_values[2]
    /\ result = RootMoves[1]

\* C7: on a position without a legal move the root loop takes no move, the
\* fallback raises, no move is returned and the board is not touched.
C7_EmptyRootRaises ==
    RootMoves = << >> =>
        /\ pc \in {"idle", "root", "error"}
        /\ npush = 0 /\ npop = 0 /\ move_values = << >>
        /\ move_stack = << >>
        /\ result = None /\ best_move = None

\* the empty selection was raised
C7_Witness == pc = "error" /\ RootMoves = << >> /\ view[1].checkmate

\* the root loop ended with no move kept
NothingKept == LoopOver /\ (pc = "fallback" \/ best_move = None)

\* C8 as claimed: at a depth >= 1 the root loop ends with no move kept only
\* on a position without legal moves.
C8_FallbackOnlyWithoutMoves ==
    (depth >= 1 /\ NothingKept) => RootMoves = << >>

\* C8 as amended: the root loop ends with no move kept only when every root
\* move's search value is the initial sentinel, minus infinity for a White
\* root mover and plus infinity for a Black one (no root move is one such
\* case); at depth 1 only when the position has no legal move.
C8_FallbackOnlyAtSentinel ==
    NothingKept =>
        /\ \A k \in 1..Len(move_values) :
              move_values[k] = (IF rootTurn = WHITE THEN NegInf ELSE PosInf)
        /\ Len(move_values) = Len(RootMoves)
        /\ depth = 1 => RootMoves = << >>

\* the random fallback ran on a position with legal moves
C8_Witness == pc = "fallback" /\ RootMoves # << >> /\ depth >= 1

\* C9: the maximizing flag of every root call is true only when the root
\* mover is Black, and false when the root mover is White.
C9_RootFlagIsBlackRoot ==
    \A k \in 1..Len(flags) : flags[k] = (rootTurn = BLACK)

\* the position is in play with side t to move
InPlay(t) ==
    /\ ~evFacts[t].checkmate /\ ~evFacts[t].stalemate
    /\ ~is_insufficient_material(EvBoardOf(t)) /\ ~evSeventyfive

\* no file holds more than one pawn of a colour
NoDoubledPawns ==
    \A c \in BOOLEAN, f \in 0..7 :
        Cardinality({q \in pieces(EvBoard, "PAWN", c) : square_file(q) = f}) <= 1

\* the share of the mobility term in the score evaluate_board returns
MobilityShare(t) ==
    IF t = WHITE THEN evaluate_mobility(EvBoardOf(t)) ELSE - evaluate_mobility(EvBoardOf(t))

\* C10: for a board in play with either side to move and no doubled pawns,
\* the scores with White to move and with Black to move, each without its
\* mobility term, are exact negations of each other.
C10_TurnFlipNegates ==
    (/\ evScore[WHITE].done /\ evScore[BLACK].done
     /\ InPlay(WHITE) /\ InPlay(BLACK)
     /\ NoDoubledPawns) =>
        evScore[WHITE].value - MobilityShare(WHITE)
            = - (evScore[BLACK].value - MobilityShare(BLACK))

\* a board with pawns of both colours and unequal mobility was scored with
\* either side to move
C10_Witness ==
    /\ evScore[WHITE].done /\ evScore[BLACK].done
    /\ InPlay(WHITE) /\ InPlay(BLACK)
    /\ NoDoubledPawns
    /\ pieces(EvBoard, "PAWN", WHITE) # {} /\ pieces(EvBoard, "PAWN", BLACK) # {}
    /\ evFacts[WHITE].nlegal # evFacts[BLACK].nlegal
    /\ evScore[WHITE].value # MobilityShare(WHITE)

\* C12: whatever integer depth the engine was built with, the exploratory
\* moves applied and not yet undone never number more than that depth.
C12_RecursionWithinDepth == Len(move_stack) <= depth

\* the two positions are set up
PawnInit ==
    /\ SearchIdle
    /\ EvalIdle
    /\ GuiIdle
    /\ \E f \in 0..7, r1 \in 1..MaxPawnRank, r2 \in 1..MaxPawnRank, r3 \in 1..MaxPawnRank,
          g1 \in 0..7, g2 \in 0..7, g3 \in 0..7,
          company \in PawnCompany, n1 \in 1..MaxMobility, n2 \in 1..MaxMobility :
          /\ r1 < r2 /\ r2 < r3
          /\ g1 # g2 /\ g1 # g3 /\ g2 # g3
          /\ pwFirst = InPlayWhite(Kings \cup company
                          \cup {WhitePawn(f, r1), WhitePawn(f, r2), WhitePawn(f, r3)}, n1)
          /\ pwSecond = InPlayWhite(Kings \cup company
                          \cup {WhitePawn(g1, r1), WhitePawn(g2, r2), WhitePawn(g3, r3)}, n2)
    /\ pwScore = <<NoScore, NoScore>>

\* evaluate_board is called on the position with the tripled pawns
EvaluateFirst ==
    /\ ~pwScore[1].done
    /\ pwScore' = [pwScore EXCEPT ![1] = [done |-> TRUE, value |-> evaluate_board(pwFirst)]]
    /\ UNCHANGED <<searchVars, evalVars, guiVars, pwFirst, pwSecond>>

\* evaluate_board is called on the position with the spread pawns
EvaluateSecond ==
    /\ ~pwScore[2].done
    /\ pwScore' = [pwScore EXCEPT ![2] = [done |-> TRUE, value |-> evaluate_board(pwSecond)]]
    /\ UNCHANGED <<searchVars, evalVars, guiVars, pwFirst, pwSecond>>

PawnNext ==
    \/ EvaluateFirst
    \/ EvaluateSecond

SpecPawns == PawnInit /\ [][PawnNext]_vars

\* the piece-square total of a position's White pawns
PawnTableSum(b) == SumTable("PAWN", pieces(b, "PAWN", WHITE), FALSE)

BothScored == pwScore[1].done /\ pwScore[2].done

\* C11 as claimed: the position with the three White pawns on one file
\* scores strictly lower than the position with the pawns spread.
C11_TripledScoresLower ==
    BothScored => pwScore[1].value < pwScore[2].value

\* C11 as amended: the pawn-structure term of the tripled position is 20
\* points below that of the spread one, and the whole score is strictly
\* lower whenever the tripled pawns' piece-square total exceeds the spread
\* pawns' total by less than 20 points and the tripled position has no more
\* legal moves.
C11_TripledLowerWhenTablesAllow ==
    BothScored =>
        /\ evaluate_pawn_structure(pwFirst) = evaluate_pawn_structure(pwSecond) - 20
        /\ (/\ PawnTableSum(pwFirst) - PawnTableSum(pwSecond) < 20
            /\ pwFirst.nlegal <= pwSecond.nlegal) =>
              pwScore[1].value < pwScore[2].value

\* the tripled pawns stand on better squares, by less than the penalty
C11_Witness ==
    /\ BothScored
    /\ PawnTableSum(pwFirst) > PawnTableSum(pwSecond)
    /\ PawnTableSum(pwFirst) - PawnTableSum(pwSecond) < 20
    /\ pwFirst.nlegal <= pwSecond.nlegal
    /\ pwScore[1].value < pwScore[2].value

(***************************************************************************)
(* find_best_move as one call: the same code as the step actions above,    *)
(* computed in one go for the position at node i with side t to move.      *)
(***************************************************************************)

\* the board at node i with side t to move
BoardOf(i, t) ==
    [turn |-> t, pieces |-> view[i].pieces, checkmate |-> view[i].checkmate,
     stalemate |-> view[i].stalemate, seventyfive |-> view[i].seventyfive,
     fivefold |-> view[i].fivefold, nlegal |-> view[i].nlegal]

RECURSIVE alpha_beta_search(_, _, _, _, _, _)
RECURSIVE SearchLoop(_, _, _, _)
alpha_beta_search(i, t, d, alpha, beta, maximizing) ==
    IF AtBase(d, BoardOf(i, t)) THEN evaluate_board(BoardOf(i, t))
    ELSE SearchLoop(i, t, Frame(d, alpha, beta, maximizing), 1)

\* the move loop of alpha_beta_search from the k-th legal move on
SearchLoop(i, t, f, k) ==
    IF f.broke \/ k > Len(legal_moves(i)) THEN f.best
    ELSE LET eval == alpha_beta_search(legal_moves(i)[k], ~t, f.depth - 1,
                                       f.alpha, f.beta, ~f.maximizing)
         IN  SearchLoop(i, t, AfterEval(f, eval), k + 1)

RECURSIVE RootLoop(_, _, _, _, _, _)
\* the root loop of find_best_move from the k-th legal move on; gives best_move
RootLoop(i, t, d, k, bm, bv) ==
    IF k > Len(legal_moves(i)) THEN bm
    ELSE LET move       == legal_moves(i)[k]
             move_value == alpha_beta_search(move, ~t, d - 1, NegInf, PosInf, RootFlag(~t))
         IN  IF Improves(t, move_value, bv)
             THEN RootLoop(i, t, d, k + 1, move, move_value)
             ELSE RootLoop(i, t, d, k + 1, bm, bv)

\* the moves find_best_move may return; none means random.choice raises
find_best_move(i, t, d) ==
    LET bm == RootLoop(i, t, d, 1, None, InitialBest(t))
    IN  IF bm # None THEN {bm} ELSE ChildSet(dep, i)

(***************************************************************************)
(* The game window.  Every action is one handled click, with all the       *)
(* calls it makes: make_move, ai_move, find_best_move and the move the     *)
(* engine answers with.  The theme menu only delays clicks and is left     *)
(* out.  A move kept in valid_moves may be pushed on a position it was     *)
(* not generated for; the board then stands on the node the move names.    *)
(* Where board.push rejects such a move the program ends without calling  *)
(* the engine, which adds no state.                                        *)
(***************************************************************************)

\* ChessAI(depth=3) of ChessGUI.__init__
GuiDepth == 3

\* board.turn: chess.Board() and board.reset() give White the move
TurnOf(ms) == IF Len(ms) % 2 = 0 THEN WHITE ELSE BLACK

\* the node the board stands on after the moves ms
NodeOf(ms) == IF ms = << >> THEN 1 ELSE Last(ms)

\* board.is_game_over() after the moves ms
OverAt(ms) == is_game_over(BoardOf(NodeOf(ms), TurnOf(ms)))

\* the test before both calls of ai_move: the flag value over, the side to move
\* and the player's colour
\* a test that forgets the game_over flag
AiToMoveAlways(over, turn, color) == turn # color

AiToMove(over, turn, color) == ~over /\ turn # color

\* what a handler leaves behind: the board, the flag, whether find_best_move
\* was called, whether on a finished game, whether it raised
Outcome(ms, over, called, onOver, raised) ==
    [stack |-> ms, over |-> over, called |-> called, onOver |-> onOver, raised |-> raised]

RECURSIVE make_move(_, _, _, _, _)
RECURSIVE ai_move(_, _, _, _, _)
\* make_move(move) on the board ms, for a player of colour color
make_move(ms, move, color, called, onOver) ==
    LET ms1  == Push(ms, move)
        over == OverAt(ms1)
    IN  IF AiToMove(over, TurnOf(ms1), color)
        THEN ai_move(ms1, over, color, called, onOver)
        ELSE {Outcome(ms1, over, called, onOver, FALSE)}

\* ai_move() on the board ms, the flag being over
ai_move(ms, over, color, called, onOver) ==
    LET moves == find_best_move(NodeOf(ms), TurnOf(ms), depth)
        seen  == onOver \/ OverAt(ms)
    IN  IF moves = {} THEN {Outcome(ms, over, TRUE, seen, TRUE)}
        ELSE UNION {make_move(ms, m, color, TRUE, seen) : m \in moves}

\* a handler ends with outcome o
Leave(o) ==
    /\ move_stack' = o.stack
    /\ game_over' = o.over
    /\ aiCalled' = o.called
    /\ aiOnOver' = o.onOver
    /\ crashed' = o.raised

fixedVars == <<depth, rootTurn, dep, view, pc, frames, ret, rootIdx, best_move,
               best_value, move_values, flags, npush, npop, cuts, result>>

\* the window opens on the starting position of a game whose every line ends
GuiInit ==
    /\ EvalIdle
    /\ PawnIdle
    /\ \E n \in 2..MaxNodes :
         \E dp \in DepSeqs(n, MaxNodes) :
           \E lk \in [LeafSet(dp) -> OverKinds] :
             /\ dep = dp
             /\ view = [i \in 1..n |-> IF i \in LeafSet(dp) THEN LeafView(lk[i])
                                       ELSE InnerView(dp, i)]
    /\ depth = GuiDepth
    /\ rootTurn = WHITE
    /\ move_stack = << >>
    /\ pc = "idle"
    /\ frames = << >>
    /\ ret = 0
    /\ rootIdx = 0
    /\ best_move = None
    /\ best_value = 0
    /\ move_values = << >>
    /\ flags = << >>
    /\ npush = 0
    /\ npop = 0
    /\ cuts = 0
    /\ result = None
    /\ GuiIdle

\* handle_click on the board: a square is selected, or the selection changes
ClickSelect ==
    /\ ~crashed
    /\ ~game_over
    /\ TurnOf(move_stack) = player_color
    /\ \E sel \in SUBSET ChildSet(dep, NodeOf(move_stack)) :
          /\ sel # valid_moves
          /\ valid_moves' = sel
    /\ UNCHANGED <<fixedVars, evalVars, pawnVars, move_stack, game_over, player_color,
                   aiCalled, aiOnOver, crashed>>

\* handle_click on the board: the square of a kept move is clicked
ClickMove ==
    /\ ~crashed
    /\ ~game_over
    /\ TurnOf(move_stack) = player_color
    /\ \E move \in valid_moves :
         \E o \in make_move(move_stack, move, player_color, aiCalled, aiOnOver) :
            /\ Leave(o)
            /\ IF o.raised THEN valid_moves' = {}
               ELSE valid_moves' \in SUBSET ChildSet(dep, NodeOf(o.stack))
    /\ UNCHANGED <<fixedVars, evalVars, pawnVars, player_color>>

\* the New Game button
NewGame ==
    /\ ~crashed
    /\ move_stack' = << >>
    /\ valid_moves' = {}
    /\ game_over' = FALSE
    /\ player_color' = WHITE
    /\ UNCHANGED <<fixedVars, evalVars, pawnVars, aiCalled, aiOnOver, crashed>>

\* the Undo Move button, with a move to undo
UndoMove ==
    /\ ~crashed
    /\ Len(move_stack) > 0
    /\ LET ms1 == Pop(move_stack)
       IN  move_stack' = IF TurnOf(ms1) # player_color /\ Len(ms1) > 0
                         THEN Pop(ms1) ELSE ms1
    /\ game_over' = FALSE
    /\ UNCHANGED <<fixedVars, evalVars, pawnVars, player_color, valid_moves,
                   aiCalled, aiOnOver, crashed>>

\* the Flip Board button
FlipBoard ==
    /\ ~crashed
    /\ player_color' = ~player_color
    /\ UNCHANGED <<fixedVars, evalVars, pawnVars, move_stack, game_over, valid_moves,
                   aiCalled, aiOnOver, crashed>>

\* the Switch Color button
SwitchColor ==
    /\ ~crashed
    /\ player_color' = ~player_color
    /\ IF AiToMove(game_over, TurnOf(move_stack), ~player_color)
       THEN \E o \in ai_move(move_stack, game_over, ~player_color, aiCalled, aiOnOver) :
               Leave(o)
       ELSE UNCHANGED <<move_stack, game_over, aiCalled, aiOnOver, crashed>>
    /\ UNCHANGED <<fixedVars, evalVars, pawnVars, valid_moves>>

GuiNext ==
    \/ ClickSelect
    \/ ClickMove
    \/ NewGame
    \/ UndoMove
    \/ FlipBoard
    \/ SwitchColor

SpecGui == GuiInit /\ [][GuiNext]_vars

\* C13: over every sequence of clicks, find_best_move is never invoked on a
\* finished game and never raises for want of a legal move, and the
\* game_over flag equals board.is_game_over() between any two clicks.
C13_AiOnlyInPlay ==
    /\ ~aiOnOver
    /\ ~crashed
    /\ game_over = OverAt(move_stack)

\* the engine has answered, and the game has since ended with the flag set
C13_Witness == aiCalled /\ game_over /\ Len(move_stack) >= 3

====
